---- MODULE Spec2Model ----
(***************************************************************************)
(* Model of the teacher module (teachers/views.py): the request handlers   *)
(* that create exam sessions and attendance sessions, record marks and     *)
(* attendance, and the free-teacher finder, over the relational tables     *)
(* they read and write.  A handler is synchronous: one action is one HTTP  *)
(* request handled from start to finish, and the next request is taken     *)
(* once the response has been returned.  The two creation branches are     *)
(* also modelled statement by statement, for requests that several server  *)
(* workers handle at the same time.                                        *)
(***************************************************************************)
EXTENDS Integers, Sequences, FiniteSets, Bags, TLC

VARIABLES
    Student,          \* table Student: id -> class_id (the USN is the id)
    StudentSubject,   \* table StudentSubject: set of <<student, subject>>
    Assign,           \* table Assign: id -> [teacher, subject, class_id]
    AssignTime,       \* table AssignTime: id -> [assign, day, period]
    ExamSession,      \* table ExamSession: id -> [assign, name, status]
    Marks,            \* table Marks: bag of rows [student_subject, name, marks1]
    AttendanceClass,  \* table AttendanceClass: id -> [assign, date, status]
    Attendance,       \* table Attendance: bag of rows
                      \*   [student, subject, attendanceclass, date, status]
    response,         \* the request being answered and its answer
    lastMarks,        \* history: (student_subject, name) -> marks1 last committed
    lastAttendance,   \* history: attendance key -> status last committed
    overwritten,      \* history: the keys of existing rows that the request
                      \*   being answered committed a new value to
    workers,          \* requests handled concurrently by several server
                      \*   workers: worker -> its request and its position
    unique_together   \* schema: whether the database enforces uniqueness of
                      \*   (assign, date) and of (assign, name)

setup == <<Student, StudentSubject, Assign, AssignTime>>
tables == <<ExamSession, Marks, AttendanceClass, Attendance>>
history == <<lastMarks, lastAttendance, overwritten>>
concurrent == <<workers, unique_together>>
vars == <<Student, StudentSubject, Assign, AssignTime, ExamSession, Marks,
          AttendanceClass, Attendance, response, lastMarks, lastAttendance,
          overwritten, workers, unique_together>>

(***************************************************************************)
(* Bounds of the model.                                                    *)
(***************************************************************************)
NumTeachers == 2
NumStudents == 4
\* Rows of Assign and of AssignTime in the timetables explored.
NumAssign == 3
NumAssignTime == 2

Teachers == 1..NumTeachers
\* Every teacher has a user account of their own, named by the teacher's id.
Users == Teachers
ExamNames == {"CIE-1"}
MarkValues == {18, 20}
AttendanceValues == {"present", "absent"}
\* The attendance_date strings tried: two spellings strptime reads as the
\* same date, and one DATE_FORMAT ('%Y-%m-%d') does not match.
DateStrings == {"2024-01-10", "2024-1-10", "10/01/2024"}
\* An id no row has.
NoSuchId == 0

\* Students 1..3 sit in class 1, the others in class 2.
BaseStudent == [s \in 1..NumStudents |-> IF s \in {1, 2, 3} THEN 1 ELSE 2]
\* Students 1 and 2 are enrolled in Math; nobody else is enrolled.
BaseStudentSubject == {<<1, "Math">>, <<2, "Math">>}
\* Teacher 1 teaches Math to class 1.
MathAssign == [teacher |-> 1, subject |-> "Math", class_id |-> 1]
\* Teacher 2 teaches Physics to class 2.
PhysicsAssign == [teacher |-> 2, subject |-> "Physics", class_id |-> 2]

Students == DOMAIN Student
\* Student.USN, the form field key of a student.
USN(s) == s

\* class_obj.student_set.all(): the students of a class, in id order.
student_set(c) ==
    SelectSeq([i \in 1..Len(Student) |-> i], LAMBDA s: Student[s] = c)

Range(seq) == {seq[i] : i \in DOMAIN seq}

(***************************************************************************)
(* Requests and responses.                                                 *)
(***************************************************************************)
\* A request: the view, the user, the id in the URL, request.method with
\* request.POST (form), and the database fault the request meets.
Request(view, user, arg, form, fault) ==
    [view |-> view, user |-> user, arg |-> arg, form |-> form, fault |-> fault]

\* kind: "redirect" | "render" | "404" | "raise" (an exception that leaves
\* the view); to: the URL name or the template; level: the level of the
\* message the request added ("none" when it added none).
\* context: what a rendered page is given (<< >> where the model keeps none).
Answer(req, kind, to, level) ==
    [req |-> req, kind |-> kind, to |-> to, level |-> level, context |-> << >>]

NoRequest == Request("none", 0, 0, [method |-> "GET"], 0)
NoResponse == Answer(NoRequest, "none", "none", "none")
\* get_object_or_404 on an id no row has.
Http404(req) == Answer(req, "404", "none", "none")
Raised(req) == Answer(req, "raise", "none", "none")
Render(req, template) == Answer(req, "render", template, "none")
\* messages.error(...) and redirect('teacher_dashboard').
AccessDenied(req) == Answer(req, "redirect", "teacher_dashboard", "error")

\* The server takes a request when no response is pending.
Idle == response = NoResponse

(***************************************************************************)
(* Database helpers.                                                       *)
(***************************************************************************)
\* Number of rows of a table (a bag) among the row values in S.
CountIn(table, S) ==
    BagCardinality([r \in (S \cap DOMAIN table) |-> table[r]])

\* with transaction.atomic(): an exception leaving the block rolls the
\* tables back to what they were on entry; otherwise the work is committed.
atomic_NoRollback(before, work, raised) == work
atomic(before, work, raised) == IF raised THEN before ELSE work

\* The outcome of QuerySet.get_or_create given the number of rows that match
\* the lookup: no row is created when one matches, and more than one match
\* raises MultipleObjectsReturned.
get_or_create_AlwaysCreates(n) == "created"
get_or_create(n) ==
    IF n = 0 THEN "created" ELSE IF n = 1 THEN "got" ELSE "multiple"

\* Faults of the database, an input of the write requests: 0 is no fault,
\* s in Students makes the write for student s raise, Len(Student) + 1 makes
\* the save of the session (its status, or its creation) raise.
Faults == 0..(NumStudents + 1)
SessionSaveFault == NumStudents + 1

\* request.POST of a per-student form, as the page of one class submits it:
\* a value under the USN of some of the students of the class.
StudentForms(values) ==
    UNION {[{USN(s) : s \in D} -> values] :
              D \in UNION {SUBSET Range(student_set(c)) : c \in Range(Student)}}

(***************************************************************************)
(* Exams and marks.                                                        *)
(***************************************************************************)
\* The owner check of t_marks_list and view_students: the user of the
\* assignment's teacher is not the user of the request.
owner_denied(assignment, user) ==
    LET owner_user == assignment.teacher
    IN  owner_user # user

\* ExamSession rows with the given assign and name: the ids that match.
exam_sessions_matching(sessions, assign_id, exam_name) ==
    {i \in DOMAIN sessions :
        sessions[i].assign = assign_id /\ sessions[i].name = exam_name}

\* The requests t_marks_list tells apart: a GET, and a POST with the field
\* create_exam and an exam_name that is missing, empty or a name.
MarksListForms ==
    {[method |-> "GET", POST |-> << >>]} \cup
    {[method |-> "POST", POST |-> [create_exam |-> "1"]]} \cup
    {[method |-> "POST", POST |-> [create_exam |-> "1", exam_name |-> n]] :
        n \in ExamNames \cup {""}}

t_marks_list(user, assign_id, form, fault) ==
    LET req == Request("t_marks_list", user, assign_id, form, fault)
    IN  /\ UNCHANGED <<setup, Marks, AttendanceClass, Attendance, history>>
        /\ IF assign_id \notin DOMAIN Assign
           THEN /\ response' = Http404(req)
                /\ UNCHANGED ExamSession
           ELSE IF owner_denied(Assign[assign_id], user)
           THEN /\ response' = AccessDenied(req)
                /\ UNCHANGED ExamSession
           ELSE IF form.method = "POST" /\ "create_exam" \in DOMAIN form.POST
           THEN IF "exam_name" \in DOMAIN form.POST /\ form.POST.exam_name # ""
                THEN LET exam_name == form.POST.exam_name
                         found == exam_sessions_matching(ExamSession, assign_id,
                                                         exam_name)
                         outcome == IF fault = SessionSaveFault THEN "error"
                                    ELSE get_or_create(Cardinality(found))
                     IN  /\ ExamSession' =
                                IF outcome = "created"
                                THEN Append(ExamSession,
                                            [assign |-> assign_id,
                                             name |-> exam_name,
                                             status |-> FALSE])
                                ELSE ExamSession
                         /\ response' =
                                Answer(req, "redirect", "t_marks_list",
                                       IF outcome = "created" THEN "success"
                                       ELSE IF outcome = "got" THEN "warning"
                                       ELSE "error")
                ELSE /\ response' = Answer(req, "redirect", "t_marks_list", "error")
                     /\ UNCHANGED ExamSession
           ELSE /\ response' = Render(req, "t_marks_list.html")
                /\ UNCHANGED ExamSession

\* A view that looks one row up by id and renders a page from it.
read_view(view, user, id, table, template) ==
    LET req == Request(view, user, id, [method |-> "GET"], 0)
    IN  /\ UNCHANGED <<setup, tables, history>>
        /\ response' = IF id \notin DOMAIN table THEN Http404(req)
                       ELSE Render(req, template)

t_marks_entry(user, marks_c_id) ==
    read_view("t_marks_entry", user, marks_c_id, ExamSession, "t_marks_entry.html")

edit_marks(user, marks_c_id) ==
    read_view("edit_marks", user, marks_c_id, ExamSession, "t_marks_entry.html")

\* exam_session.status = True; exam_session.save()
finalized(sessions, id) == [sessions EXCEPT ![id].status = TRUE]

\* student_subject.marks_set.filter(name=...): the row values that match.
marks_matching(rows, student_subject, name) ==
    {r \in DOMAIN rows : r.student_subject = student_subject /\ r.name = name}

\* The body of the per-student loop of marks_confirm for one student whose
\* field was submitted and who is enrolled: get_or_create, set marks1, save.
marks_upsert_IgnoresExisting(rows, student_subject, name, student_mark) ==
    LET found == marks_matching(rows, student_subject, name)
        fresh == [student_subject |-> student_subject, name |-> name,
                  marks1 |-> student_mark]
    IN  [rows |-> IF found = {} THEN rows (+) SetToBag({fresh}) ELSE rows,
         raised |-> FALSE]
marks_upsert(rows, student_subject, name, student_mark) ==
    LET found == marks_matching(rows, student_subject, name)
        outcome == get_or_create(CountIn(rows, found))
        fresh == [student_subject |-> student_subject, name |-> name,
                  marks1 |-> student_mark]
    IN  IF outcome = "multiple" THEN [rows |-> rows, raised |-> TRUE]
        ELSE IF outcome = "created"
        THEN [rows |-> rows (+) SetToBag({fresh}), raised |-> FALSE]
        ELSE [rows |-> (rows (-) SetToBag(found)) (+) SetToBag({fresh}),
              raised |-> FALSE]

\* The per-student loop of marks_confirm over the students still to do:
\* the rows as they stand when the loop ends or an exception leaves it.
RECURSIVE marks_loop(_, _, _, _, _, _)
marks_loop(rows, students, fields, subject, name, fault) ==
    IF students = << >> THEN [rows |-> rows, raised |-> FALSE]
    ELSE LET student == Head(students)
             rest == Tail(students)
         IN  IF USN(student) \notin DOMAIN fields
             THEN marks_loop(rows, rest, fields, subject, name, fault)
             ELSE IF <<student, subject>> \notin StudentSubject
             THEN marks_loop(rows, rest, fields, subject, name, fault)
             ELSE IF fault = student THEN [rows |-> rows, raised |-> TRUE]
             ELSE LET done == marks_upsert(rows, <<student, subject>>, name,
                                           fields[USN(student)])
                  IN  IF done.raised THEN done
                      ELSE marks_loop(done.rows, rest, fields, subject, name, fault)

\* The Marks keys a marks_confirm submission addresses.
marks_keys(class_id, subject, name, fields) ==
    {<<<<s, subject>>, name>> : s \in
        {x \in Students : /\ Student[x] = class_id
                          /\ USN(x) \in DOMAIN fields
                          /\ <<x, subject>> \in StudentSubject}}

marks_confirm(user, marks_c_id, fields, fault) ==
    LET req == Request("marks_confirm", user, marks_c_id,
                       [method |-> "POST", fields |-> fields], fault)
    IN  /\ UNCHANGED <<setup, AttendanceClass, Attendance, lastAttendance>>
        /\ IF marks_c_id \notin DOMAIN ExamSession
           THEN /\ response' = Http404(req)
                /\ UNCHANGED <<ExamSession, Marks, lastMarks, overwritten>>
           ELSE LET exam_session == ExamSession[marks_c_id]
                    assignment == Assign[exam_session.assign]
                    subject == assignment.subject
                    class_object == assignment.class_id
                    loop == marks_loop(Marks, student_set(class_object), fields,
                                       subject, exam_session.name, fault)
                    raised == loop.raised \/ fault = SessionSaveFault
                    before == [Marks |-> Marks, ExamSession |-> ExamSession]
                    work == [Marks |-> loop.rows,
                             ExamSession |->
                                 IF raised THEN ExamSession
                                 ELSE finalized(ExamSession, marks_c_id)]
                    after == atomic(before, work, raised)
                    keys == marks_keys(class_object, subject, exam_session.name,
                                       fields)
                IN  /\ Marks' = after.Marks
                    /\ ExamSession' = after.ExamSession
                    /\ lastMarks' =
                           IF raised THEN lastMarks
                           ELSE [k \in DOMAIN lastMarks \cup keys |->
                                    IF k \in keys THEN fields[USN(k[1][1])]
                                    ELSE lastMarks[k]]
                    /\ overwritten' =
                           IF raised THEN {} ELSE keys \cap DOMAIN lastMarks
                    /\ response' =
                           IF raised THEN Raised(req)
                           ELSE Answer(req, "redirect", "t_marks_list", "none")

(***************************************************************************)
(* Attendance.                                                             *)
(***************************************************************************)
\* timezone.datetime.strptime(date_str, DATE_FORMAT).date(): the date read,
\* or ValueError when the string does not match '%Y-%m-%d'.
strptime(date_str) ==
    IF date_str \in {"2024-01-10", "2024-1-10"}
    THEN [ok |-> TRUE, date |-> <<2024, 1, 10>>]
    ELSE [ok |-> FALSE, date |-> << >>]

\* AttendanceClass rows with the given assign and date: the ids that match.
attendance_classes_matching(classes, assign_id, date) ==
    {i \in DOMAIN classes :
        classes[i].assign = assign_id /\ classes[i].date = date}

\* Attendance rows matching the lookup of get_or_create.
attendance_matching(rows, student, subject, assc_id, date) ==
    {r \in DOMAIN rows : /\ r.student = student /\ r.subject = subject
                         /\ r.attendanceclass = assc_id /\ r.date = date}

\* status_str == 'present', with status_str = request.POST.get(student.USN).
submitted_status(fields, student) ==
    USN(student) \in DOMAIN fields /\ fields[USN(student)] = "present"

\* The body of the per-student loop of an attendance confirmation:
\* get_or_create with the status as default, else set the status and save.
attendance_upsert_KeepsStatus(rows, student, subject, assc_id, date, status) ==
    LET found == attendance_matching(rows, student, subject, assc_id, date)
        fresh == [student |-> student, subject |-> subject,
                  attendanceclass |-> assc_id, date |-> date, status |-> status]
    IN  [rows |-> IF found = {} THEN rows (+) SetToBag({fresh}) ELSE rows,
         raised |-> FALSE]
attendance_upsert(rows, student, subject, assc_id, date, status) ==
    LET found == attendance_matching(rows, student, subject, assc_id, date)
        outcome == get_or_create(CountIn(rows, found))
        fresh == [student |-> student, subject |-> subject,
                  attendanceclass |-> assc_id, date |-> date, status |-> status]
    IN  IF outcome = "multiple" THEN [rows |-> rows, raised |-> TRUE]
        ELSE IF outcome = "created"
        THEN [rows |-> rows (+) SetToBag({fresh}), raised |-> FALSE]
        ELSE [rows |-> (rows (-) SetToBag(found)) (+) SetToBag({fresh}),
              raised |-> FALSE]

RECURSIVE attendance_loop(_, _, _, _, _, _, _)
attendance_loop(rows, students, fields, subject, assc_id, date, fault) ==
    IF students = << >> THEN [rows |-> rows, raised |-> FALSE]
    ELSE LET student == Head(students)
         IN  IF fault = student THEN [rows |-> rows, raised |-> TRUE]
             ELSE LET done == attendance_upsert(rows, student, subject, assc_id,
                                   date, submitted_status(fields, student))
                  IN  IF done.raised THEN done
                      ELSE attendance_loop(done.rows, Tail(students), fields,
                                           subject, assc_id, date, fault)

\* The Attendance keys an attendance confirmation addresses.
attendance_keys(students, subject, assc_id, date) ==
    {<<s, subject, assc_id, date>> : s \in Range(students)}

\* assc.status = 1; assc.save()
marked_Toggles(classes, id) == [classes EXCEPT ![id].status = 1 - @]
marked(classes, id) == [classes EXCEPT ![id].status = 1]

\* The transaction of an attendance confirmation (in confirm, and in the
\* confirm_attendance branch of t_class_date): the loop over the students,
\* then assc.status = 1 and assc.save().
attendance_transaction(students, subject, assc_id, fields, fault) ==
    LET date == AttendanceClass[assc_id].date
        loop == attendance_loop(Attendance, students, fields, subject, assc_id,
                                date, fault)
        raised == loop.raised \/ fault = SessionSaveFault
        before == [Attendance |-> Attendance, AttendanceClass |-> AttendanceClass]
        work == [Attendance |-> loop.rows,
                 AttendanceClass |->
                     IF raised THEN AttendanceClass
                     ELSE marked(AttendanceClass, assc_id)]
        keys == attendance_keys(students, subject, assc_id, date)
    IN  [after |-> atomic(before, work, raised),
         raised |-> raised,
         overwritten |-> IF raised THEN {} ELSE keys \cap DOMAIN lastAttendance,
         last |-> IF raised THEN lastAttendance
                  ELSE [k \in DOMAIN lastAttendance \cup keys |->
                           IF k \in keys THEN submitted_status(fields, k[1])
                           ELSE lastAttendance[k]]]

\* The requests t_class_date tells apart: a GET; create_attendance with an
\* attendance_date that is missing or a string; confirm_attendance with an
\* assc_id and the per-student fields; select_attendance with an assc_id.
ClassDateForms ==
    {[method |-> "GET", POST |-> << >>]} \cup
    {[method |-> "POST", POST |-> [create_attendance |-> "1"]]} \cup
    {[method |-> "POST",
      POST |-> [create_attendance |-> "1", attendance_date |-> d]] :
        d \in DateStrings} \cup
    {[method |-> "POST", POST |-> [confirm_attendance |-> "1", assc_id |-> i],
      fields |-> f] :
        i \in DOMAIN AttendanceClass \cup {NoSuchId},
        f \in StudentForms(AttendanceValues)} \cup
    {[method |-> "POST", POST |-> [select_attendance |-> "1", assc_id |-> i]] :
        i \in DOMAIN AttendanceClass \cup {NoSuchId}}

t_class_date(user, assign_id, form, fault) ==
    LET req == Request("t_class_date", user, assign_id, form, fault)
    IN  /\ UNCHANGED <<setup, ExamSession, Marks, lastMarks>>
        /\ IF assign_id \notin DOMAIN Assign
           THEN /\ response' = Http404(req)
                /\ UNCHANGED <<AttendanceClass, Attendance, lastAttendance, overwritten>>
           ELSE IF form.method = "POST" /\ "create_attendance" \in DOMAIN form.POST
           THEN /\ UNCHANGED <<Attendance, lastAttendance, overwritten>>
                /\ IF "attendance_date" \notin DOMAIN form.POST
                   THEN \* strptime(None, ...) raises TypeError
                        /\ response' = Raised(req)
                        /\ UNCHANGED AttendanceClass
                   ELSE IF ~strptime(form.POST.attendance_date).ok
                   THEN /\ response' = Answer(req, "redirect", "t_class_date",
                                              "error")
                        /\ UNCHANGED AttendanceClass
                   ELSE LET attendance_date == strptime(form.POST.attendance_date).date
                            exists == attendance_classes_matching(
                                          AttendanceClass, assign_id,
                                          attendance_date) # {}
                            created == Append(AttendanceClass,
                                              [assign |-> assign_id,
                                               date |-> attendance_date,
                                               status |-> 0])
                        IN  IF ~exists /\ fault = SessionSaveFault
                            THEN /\ response' = Raised(req)
                                 /\ UNCHANGED AttendanceClass
                            ELSE /\ AttendanceClass' =
                                        IF exists THEN AttendanceClass ELSE created
                                 /\ response' =
                                        IF Cardinality(attendance_classes_matching(
                                               AttendanceClass', assign_id,
                                               attendance_date)) > 1
                                        THEN Raised(req)
                                        ELSE Render(req, "t_class_date.html")
           ELSE IF form.method = "POST" /\ "confirm_attendance" \in DOMAIN form.POST
           THEN IF form.POST.assc_id \notin DOMAIN AttendanceClass
                THEN /\ response' = Http404(req)
                     /\ UNCHANGED <<AttendanceClass, Attendance, lastAttendance, overwritten>>
                ELSE LET assign == Assign[assign_id]
                         tx == attendance_transaction(
                                   student_set(assign.class_id), assign.subject,
                                   form.POST.assc_id, form.fields, fault)
                     IN  /\ Attendance' = tx.after.Attendance
                         /\ AttendanceClass' = tx.after.AttendanceClass
                         /\ lastAttendance' = tx.last
                         /\ overwritten' = tx.overwritten
                         /\ response' =
                                IF tx.raised THEN Raised(req)
                                ELSE Answer(req, "redirect", "t_class_date",
                                            "success")
           ELSE IF form.method = "POST" /\ "select_attendance" \in DOMAIN form.POST
           THEN /\ UNCHANGED <<AttendanceClass, Attendance, lastAttendance, overwritten>>
                /\ response' =
                       IF form.POST.assc_id \notin DOMAIN AttendanceClass
                       THEN Http404(req)
                       ELSE Render(req, "t_class_date.html")
           ELSE /\ UNCHANGED <<AttendanceClass, Attendance, lastAttendance, overwritten>>
                /\ response' = Render(req, "t_class_date.html")

t_attendance(user, ass_c_id) ==
    read_view("t_attendance", user, ass_c_id, AttendanceClass, "t_attendance.html")

confirm(user, ass_c_id, fields, fault) ==
    LET req == Request("confirm", user, ass_c_id,
                       [method |-> "POST", fields |-> fields], fault)
    IN  /\ UNCHANGED <<setup, ExamSession, Marks, lastMarks>>
        /\ IF ass_c_id \notin DOMAIN AttendanceClass
           THEN /\ response' = Http404(req)
                /\ UNCHANGED <<AttendanceClass, Attendance, lastAttendance, overwritten>>
           ELSE LET assign == Assign[AttendanceClass[ass_c_id].assign]
                    tx == attendance_transaction(
                              student_set(assign.class_id), assign.subject,
                              ass_c_id, fields, fault)
                IN  /\ Attendance' = tx.after.Attendance
                    /\ AttendanceClass' = tx.after.AttendanceClass
                    /\ lastAttendance' = tx.last
                    /\ overwritten' = tx.overwritten
                    /\ response' =
                           IF tx.raised THEN Raised(req)
                           ELSE Answer(req, "redirect", "t_class_date", "success")

\* round(num / den * 100, ndigits) of Python for num >= 0 and den > 0, in
\* units of 10^-ndigits (333 is 33.3 for ndigits = 1): the nearest such
\* number, the even one of two equally near.
round_Truncates(num, den, ndigits) == (100 * (10 ^ ndigits) * num) \div den
round(num, den, ndigits) ==
    LET scaled == 100 * (10 ^ ndigits) * num
        q == scaled \div den
        r == scaled % den
    IN  IF 2 * r < den THEN q
        ELSE IF 2 * r > den THEN q + 1
        ELSE IF q % 2 = 0 THEN q ELSE q + 1

\* Attendance.objects.filter(attendanceclass=assc, subject=subject): the
\* rows, as a bag.
attendance_of_class(rows, assc_id, subject) ==
    [r \in {x \in DOMAIN rows : /\ x.attendanceclass = assc_id
                                /\ x.subject = subject} |-> rows[r]]

\* _calculate_attendance_statistics(attendance_queryset); the percentage in
\* tenths.
calculate_attendance_statistics(attendance_queryset) ==
    LET total_students == BagCardinality(attendance_queryset)
        present_students ==
            CountIn(attendance_queryset,
                    {r \in DOMAIN attendance_queryset : r.status})
        absent_students == total_students - present_students
        attendance_percentage ==
            IF total_students > 0
            THEN round(present_students, total_students, 1) ELSE 0
    IN  [total_students |-> total_students,
         present_students |-> present_students,
         absent_students |-> absent_students,
         attendance_percentage |-> attendance_percentage]

\* edit_att and view_att: the statistics of the session's rows, rendered.
attendance_view(view, user, ass_c_id, template, with_percentage) ==
    LET req == Request(view, user, ass_c_id, [method |-> "GET"], 0)
    IN  /\ UNCHANGED <<setup, tables, history>>
        /\ IF ass_c_id \notin DOMAIN AttendanceClass
           THEN response' = Http404(req)
           ELSE LET assign == Assign[AttendanceClass[ass_c_id].assign]
                    att_list == attendance_of_class(Attendance, ass_c_id,
                                                    assign.subject)
                    stats == calculate_attendance_statistics(att_list)
                IN  response' =
                        [Render(req, template) EXCEPT !.context =
                            IF with_percentage
                            THEN [total_students |-> stats.total_students,
                                  present_students |-> stats.present_students,
                                  absent_students |-> stats.absent_students,
                                  attendance_percentage |->
                                      stats.attendance_percentage]
                            ELSE [total_students |-> stats.total_students,
                                  present_students |-> stats.present_students,
                                  absent_students |-> stats.absent_students]]

edit_att(user, ass_c_id) ==
    attendance_view("edit_att", user, ass_c_id, "t_edit_att.html", FALSE)

view_att(user, ass_c_id) ==
    attendance_view("view_att", user, ass_c_id, "t_view_att.html", TRUE)

(***************************************************************************)
(* Report and aggregated view.                                             *)
(***************************************************************************)
\* utils.constant: the thresholds of the report.
ATTENDANCE_STANDARD == 85
CIE_STANDARD == 8

\* What student_subject.get_attendance() and student_subject.get_cie() give
\* for one student: a number, or an exception.
ScoreOutcomes ==
    [attendance : [raises : {FALSE}, value : {84, 85, 92}]
                      \cup {[raises |-> TRUE, value |-> 0]},
     cie : [raises : {FALSE}, value : {7, 8, 9}]
               \cup {[raises |-> TRUE, value |-> 0]}]

\* The students of the class that have a StudentSubject of the subject.
enrolled(class_id, subject) ==
    {s \in Students : Student[s] = class_id /\ <<s, subject>> \in StudentSubject}

\* The outcomes of get_attendance and get_cie for the students t_report of
\* an assignment asks them for.
ReportScores(assign_id) ==
    IF assign_id \in DOMAIN Assign
    THEN [enrolled(Assign[assign_id].class_id, Assign[assign_id].subject)
              -> ScoreOutcomes]
    ELSE {<< >>}

\* try: x = student_subject.get_...() except Exception: x = 0
value_or_zero(outcome) == IF outcome.raises THEN 0 ELSE outcome.value

\* attendance < ATTENDANCE_STANDARD or cie < CIE_STANDARD
needs_support_Both(attendance, cie) ==
    attendance < ATTENDANCE_STANDARD /\ cie < CIE_STANDARD
needs_support(attendance, cie) ==
    attendance < ATTENDANCE_STANDARD \/ cie < CIE_STANDARD

\* The loop of t_report over the students of the class, from the counts so
\* far.
RECURSIVE report_loop(_, _, _, _)
report_loop(students, subject, scores, counts) ==
    IF students = << >> THEN counts
    ELSE LET stud == Head(students)
         IN  IF <<stud, subject>> \notin StudentSubject
             THEN report_loop(Tail(students), subject, scores, counts)
             ELSE LET attendance == value_or_zero(scores[stud].attendance)
                      cie == value_or_zero(scores[stud].cie)
                  IN  report_loop(Tail(students), subject, scores,
                        [sc_list |-> Append(counts.sc_list, stud),
                         good_attendance_count |->
                             counts.good_attendance_count
                             + (IF attendance >= ATTENDANCE_STANDARD THEN 1 ELSE 0),
                         good_cie_count |->
                             counts.good_cie_count
                             + (IF cie >= CIE_STANDARD THEN 1 ELSE 0),
                         need_support_count |->
                             counts.need_support_count
                             + (IF needs_support(attendance, cie) THEN 1 ELSE 0)])

t_report(user, assign_id, scores) ==
    LET req == Request("t_report", user, assign_id,
                       [method |-> "GET", scores |-> scores], 0)
    IN  /\ UNCHANGED <<setup, tables, history>>
        /\ IF assign_id \notin DOMAIN Assign
           THEN response' = Http404(req)
           ELSE LET ass == Assign[assign_id]
                    counts == report_loop(student_set(ass.class_id), ass.subject,
                                  scores,
                                  [sc_list |-> << >>, good_attendance_count |-> 0,
                                   good_cie_count |-> 0, need_support_count |-> 0])
                    total_students == Len(counts.sc_list)
                    pass_rate ==
                        IF total_students = 0 THEN 100
                        ELSE round(total_students - counts.need_support_count,
                                   total_students, 0)
                IN  response' =
                        [Render(req, "t_report.html") EXCEPT !.context =
                            [sc_list |-> counts.sc_list,
                             good_attendance_count |-> counts.good_attendance_count,
                             good_cie_count |-> counts.good_cie_count,
                             need_support_count |-> counts.need_support_count,
                             pass_rate |-> pass_rate]]

\* utils.constant: the marks the CIE score counts and what their sum is
\* divided by.
CIE_CALCULATION_LIMIT == 5
CIE_DIVISOR == 2

\* The exam names, in the order of order_by('name').
NameOrder == <<"CIE-1", "CIE-2", "CIE-3", "CIE-4", "CIE-5", "CIE-6">>

RECURSIVE sum(_)
sum(list) == IF list = << >> THEN 0 ELSE Head(list) + sum(Tail(list))

\* math.ceil(a / d) for d > 0.
ceil(a, d) == -((-a) \div d)

\* [m.marks1 for m in student_subject.marks_set.all().order_by('name')],
\* there being one row per name.
marks_list_of(student_subject) ==
    LET mine(name) == {r \in DOMAIN Marks : /\ r.student_subject = student_subject
                                            /\ r.name = name}
        names == SelectSeq(NameOrder, LAMBDA name : mine(name) # {})
    IN  [i \in DOMAIN names |-> (CHOOSE r \in mine(names[i]) : TRUE).marks1]

\* marks_list[:CIE_CALCULATION_LIMIT]
first_marks(marks_list) ==
    SubSeq(marks_list, 1,
           IF Len(marks_list) < CIE_CALCULATION_LIMIT THEN Len(marks_list)
           ELSE CIE_CALCULATION_LIMIT)

\* math.ceil(sum(marks_list[:CIE_CALCULATION_LIMIT]) / CIE_DIVISOR) if
\* marks_list else 0
cie_score_NoLimit(marks_list) ==
    IF marks_list # << >> THEN ceil(sum(marks_list), CIE_DIVISOR) ELSE 0
cie_score(marks_list) ==
    IF marks_list # << >> THEN ceil(sum(first_marks(marks_list)), CIE_DIVISOR)
    ELSE 0

\* One entry of students_data (the attendance percentage in hundredths).
student_data(student, subject) ==
    IF <<student, subject>> \in StudentSubject
    THEN LET marks_list == marks_list_of(<<student, subject>>)
             attendance_records ==
                 [r \in {x \in DOMAIN Attendance : /\ x.student = student
                                                   /\ x.subject = subject}
                     |-> Attendance[r]]
             total_classes == BagCardinality(attendance_records)
             attended_classes ==
                 CountIn(attendance_records,
                         {r \in DOMAIN attendance_records : r.status})
         IN  [student |-> student,
              marks |-> marks_list,
              total_marks |-> sum(marks_list),
              attendance_percentage |->
                  IF total_classes > 0
                  THEN round(attended_classes, total_classes, 2) ELSE 0,
              cie_score |-> cie_score(marks_list),
              total_classes |-> total_classes,
              attended_classes |-> attended_classes,
              is_registered |-> TRUE]
    ELSE [student |-> student, marks |-> << >>, total_marks |-> 0,
          attendance_percentage |-> 0, cie_score |-> 0, total_classes |-> 0,
          attended_classes |-> 0, is_registered |-> FALSE]

\* view_students; the students of a class are fewer than a page holds, so
\* the page shown holds them all.
view_students(user, assign_id) ==
    LET req == Request("view_students", user, assign_id, [method |-> "GET"], 0)
    IN  /\ UNCHANGED <<setup, tables, history>>
        /\ IF assign_id \notin DOMAIN Assign THEN response' = Http404(req)
           ELSE IF owner_denied(Assign[assign_id], user)
           THEN response' = AccessDenied(req)
           ELSE LET assignment == Assign[assign_id]
                    students == student_set(assignment.class_id)
                    students_data ==
                        [i \in DOMAIN students |->
                            student_data(students[i], assignment.subject)]
                IN  response' =
                        [Render(req, "t_view_students.html") EXCEPT !.context =
                            [students_page |-> students_data,
                             students_total |-> Len(students_data)]]

(***************************************************************************)
(* Free teachers for a slot.                                               *)
(***************************************************************************)
Classes == {1, 2}
Subjects == {"Math", "Physics"}
\* <<day, period>> of the timetable slots explored: two share the day, two
\* share the period.
Slots == {<<"Monday", "8:30 - 9:30">>, <<"Monday", "9:30 - 10:30">>,
          <<"Tuesday", "8:30 - 9:30">>}

\* Teacher.objects.filter(assign__class_id=...).distinct(), in id order.
teachers_of_class(class_id) ==
    SelectSeq([i \in 1..NumTeachers |-> i],
              LAMBDA t: \E a \in DOMAIN Assign :
                            Assign[a].teacher = t /\ Assign[a].class_id = class_id)

\* any(at.period == asst.period and at.day == asst.day for at in at_list),
\* at_list being the AssignTime rows of the teacher's assignments.
is_busy_All(t, asst) ==
    \A at \in DOMAIN AssignTime :
        Assign[AssignTime[at].assign].teacher = t
            => /\ AssignTime[at].period = asst.period
               /\ AssignTime[at].day = asst.day
is_busy(t, asst) ==
    \E at \in DOMAIN AssignTime :
        /\ Assign[AssignTime[at].assign].teacher = t
        /\ AssignTime[at].period = asst.period
        /\ AssignTime[at].day = asst.day

\* t.assign_set.filter(subject=required_subject).exists()
has_subject_knowledge(t, required_subject) ==
    \E a \in DOMAIN Assign :
        Assign[a].teacher = t /\ Assign[a].subject = required_subject

free_teachers(user, asst_id) ==
    LET req == Request("free_teachers", user, asst_id, [method |-> "GET"], 0)
    IN  /\ UNCHANGED <<setup, tables, history>>
        /\ IF asst_id \notin DOMAIN AssignTime
           THEN response' = Http404(req)
           ELSE LET asst == AssignTime[asst_id]
                    required_subject == Assign[asst.assign].subject
                    t_list == teachers_of_class(Assign[asst.assign].class_id)
                    ft_list ==
                        SelectSeq(t_list, LAMBDA t:
                            ~is_busy(t, asst)
                            /\ has_subject_knowledge(t, required_subject))
                    teachers_without_knowledge ==
                        SelectSeq(t_list, LAMBDA t:
                            ~is_busy(t, asst)
                            /\ ~has_subject_knowledge(t, required_subject))
                IN  response' =
                        [Answer(req, "render", "free_teachers.html",
                                IF ft_list = << >> THEN "warning" ELSE "none")
                         EXCEPT !.context =
                            [ft_list |-> ft_list,
                             required_subject |-> required_subject,
                             assignment_time |-> asst,
                             teachers_without_knowledge |->
                                 teachers_without_knowledge,
                             total_teachers_checked |-> Len(t_list),
                             available_teachers_count |-> Len(ft_list)]]

(***************************************************************************)
(* Weekly timetable.                                                       *)
(***************************************************************************)
\* utils.constant: the days of the grid, the teaching slots in order, and
\* the two non-teaching markers.
DAYS_OF_WEEK ==
    <<"Monday", "Tuesday", "Wednesday", "Thursday", "Friday", "Saturday">>
TIME_SLOTS ==
    <<"7:30 - 8:30", "8:30 - 9:30", "9:30 - 10:30", "11:00 - 11:50",
      "11:50 - 12:40", "12:40 - 1:30", "2:30 - 3:30", "3:30 - 4:30",
      "4:30 - 5:30">>
BREAK_PERIOD == "Break"
LUNCH_PERIOD == "Lunch"

\* A date is the number of its day, day 0 being Monday 2024-09-02; a date
\* string is the date it spells and the format it spells it in.
DateString(format, day) == [format |-> format, day |-> day]
\* date.strftime('%Y-%m-%d')
strftime(day) == DateString("%Y-%m-%d", day)
\* datetime.strptime(s, "%Y-%m-%d").date(): ValueError for another format.
datetime_strptime(s) ==
    IF s.format = "%Y-%m-%d" THEN [ok |-> TRUE, date |-> s.day]
    ELSE [ok |-> FALSE, date |-> 0]
\* date.weekday(): Monday is 0.
weekday(day) == day % 7
\* timezone.now().date(): a Wednesday.
today == 2

\* utils.date_utils, by the semester calendar: the academic year that a date
\* falls in, its semester, and the first and last day of a semester
\* (ValueError for a semester the calendar does not have).
determine_academic_year_start(day) == "2024"
determine_semester(day) == 1
get_semester_date_range(year, sem) ==
    LET first == IF year = "2024" THEN 0 ELSE 364
    IN  IF sem = 1 THEN [ok |-> TRUE, start |-> first, end |-> first + 139]
        ELSE IF sem = 2
        THEN [ok |-> TRUE, start |-> first + 140, end |-> first + 300]
        ELSE [ok |-> FALSE, start |-> 0, end |-> 0]

\* str.isdigit() and int() of the semester strings tried.
isdigit(str) == str \in {"1", "2", "3"}
int(str) == IF str = "1" THEN 1 ELSE IF str = "2" THEN 2 ELSE 3

\* assign__academic_year__icontains=year: the year is part of the text of
\* the academic year, a text being the years it names joined by '-'.
icontains(academic_year, year) == year \in Range(academic_year)

\* The Assign rows of the timetables explored, with their academic year and
\* semester.
TimetableAssign ==
    <<[teacher |-> 1, subject |-> "Math", class_id |-> 1,
       academic_year |-> <<"2024", "2025">>, semester |-> 1],
      [teacher |-> 1, subject |-> "Physics", class_id |-> 2,
       academic_year |-> <<"2025", "2026">>, semester |-> 2],
      [teacher |-> 2, subject |-> "Math", class_id |-> 2,
       academic_year |-> <<"2024", "2025">>, semester |-> 1]>>

\* The AssignTime rows the timetables explored are made of: two of teacher 1
\* in one cell, one of teacher 2, and rows of teacher 1 whose period is a
\* marker, whose period is no slot, and whose day is no day of the grid.
TimetableRows ==
    <<[assign |-> 1, day |-> "Monday", period |-> "9:30 - 10:30"],
     [assign |-> 2, day |-> "Monday", period |-> "9:30 - 10:30"],
     [assign |-> 3, day |-> "Tuesday", period |-> "11:00 - 11:50"],
     [assign |-> 1, day |-> "Tuesday", period |-> "12:40 - 1:30"],
     [assign |-> 1, day |-> "Tuesday", period |-> BREAK_PERIOD],
     [assign |-> 1, day |-> "Monday", period |-> "Zero hour"],
     [assign |-> 1, day |-> "Sunday", period |-> "9:30 - 10:30"]>>

\* timetable[day][slot] of an empty cell.
None == [subject |-> "None", teacher |-> NoSuchId, assignment |-> NoSuchId]

\* The slot list with the markers: each slot of TIME_SLOTS in order, the
\* break after '9:30 - 10:30' and the lunch after '12:40 - 1:30'.
RECURSIVE time_slots_from(_)
time_slots_from(base_slots) ==
    IF base_slots = << >> THEN << >>
    ELSE LET slot == Head(base_slots)
         IN  (IF slot = "9:30 - 10:30" THEN <<slot, BREAK_PERIOD>>
              ELSE IF slot = "12:40 - 1:30" THEN <<slot, LUNCH_PERIOD>>
              ELSE <<slot>>) \o time_slots_from(Tail(base_slots))


\* The query strings of t_timetable tried: academic_year, semester,
\* start_date with end_date, and week_start, each missing or given.
TimetableQueries ==
    LET Opt(name, values) ==
            {<< >>} \cup {[x \in {name} |-> v] : v \in values}
        DateRanges ==
            {<< >>,
             [start_date |-> strftime(0), end_date |-> strftime(0)],
             [start_date |-> strftime(1), end_date |-> strftime(6)],
             [start_date |-> strftime(1)],
             [start_date |-> DateString("%d/%m/%Y", 0), end_date |-> strftime(6)]}
    IN  {y @@ m @@ r @@ w :
            y \in Opt("academic_year", {"2024", "2025"}),
            m \in Opt("semester", {"1", "x"}),
            r \in DateRanges,
            w \in Opt("week_start", {strftime(9), DateString("%d/%m/%Y", 9)})}

\* The [start, end] of the date-range filter (ok is FALSE for start = end =
\* None): the range of the semester unless both dates are given, else the
\* dates given.
timetable_date_range(GET, year, sem) ==
    LET none == [ok |-> FALSE, start |-> 0, end |-> 0]
        given == "start_date" \in DOMAIN GET /\ "end_date" \in DOMAIN GET
    IN  IF ~given /\ isdigit(sem)
        THEN get_semester_date_range(year, int(sem))
        ELSE LET has_start == "start_date" \in DOMAIN GET
                 has_end == "end_date" \in DOMAIN GET
                 bad == \/ has_start /\ ~datetime_strptime(GET.start_date).ok
                        \/ has_end /\ ~datetime_strptime(GET.end_date).ok
             IN  IF bad \/ ~has_start \/ ~has_end THEN none
                 ELSE [ok |-> TRUE,
                       start |-> datetime_strptime(GET.start_date).date,
                       end |-> datetime_strptime(GET.end_date).date]

\* The days of the grid whose date in the week of monday_start is in
\* [start, end].
days_in_range(monday_start, start, end) ==
    {DAYS_OF_WEEK[idx + 1] : idx \in
        {i \in 0..(Len(DAYS_OF_WEEK) - 1) :
            LET day_to_date == strftime(monday_start + i)
                dt == datetime_strptime(day_to_date).date
            IN  start <= dt /\ dt <= end}}

\* The AssignTime rows left by the filters of t_timetable.
timetable_rows_AllTeachers(teacher_id, year, sem, range, monday_start) ==
    {at \in DOMAIN AssignTime :
        LET assign == Assign[AssignTime[at].assign]
        IN  /\ icontains(assign.academic_year, year)
            /\ isdigit(sem) => assign.semester = int(sem)
            /\ range.ok => AssignTime[at].day \in
                               days_in_range(monday_start, range.start, range.end)}
timetable_rows(teacher_id, year, sem, range, monday_start) ==
    {at \in DOMAIN AssignTime :
        LET assign == Assign[AssignTime[at].assign]
        IN  /\ assign.teacher = teacher_id
            /\ icontains(assign.academic_year, year)
            /\ isdigit(sem) => assign.semester = int(sem)
            /\ range.ok => AssignTime[at].day \in
                               days_in_range(monday_start, range.start, range.end)}

\* timetable = {day: {slot: None ...}} and the loop over asst in the order
\* the database returns the rows in (by id, or by id descending): a cell
\* holds the last row of its day and period.
timetable_grid(asst, time_slots, order) ==
    [day \in Range(DAYS_OF_WEEK) |->
        [slot \in Range(time_slots) |->
            LET here == {at \in asst : /\ AssignTime[at].day = day
                                       /\ AssignTime[at].period = slot}
            IN  IF here = {} THEN None
                ELSE LET at == CHOOSE x \in here :
                                   \A y \in here :
                                       IF order = "id" THEN y <= x ELSE x <= y
                         assign == AssignTime[at].assign
                     IN  [subject |-> Assign[assign].subject,
                          teacher |-> Assign[assign].teacher,
                          assignment |-> assign]]]

t_timetable(user, is_staff, teacher_id, GET, order) ==
    LET req == Request("t_timetable", user, teacher_id,
                       [method |-> "GET", GET |-> GET, is_staff |-> is_staff], 0)
    IN  /\ UNCHANGED <<setup, tables, history>>
        /\ IF teacher_id \notin Teachers
           THEN response' = Http404(req)
           ELSE IF teacher_id # user /\ ~is_staff
           THEN response' = AccessDenied(req)
           ELSE LET year == IF "academic_year" \in DOMAIN GET
                            THEN GET.academic_year
                            ELSE determine_academic_year_start(today)
                    sem == IF "semester" \in DOMAIN GET THEN GET.semester
                           ELSE IF determine_semester(today) = 1 THEN "1" ELSE "2"
                    range == timetable_date_range(GET, year, sem)
                    parsed == IF "week_start" \in DOMAIN GET
                              THEN datetime_strptime(GET.week_start)
                              ELSE [ok |-> TRUE, date |-> today]
                    base_date == IF parsed.ok THEN parsed.date ELSE today
                    monday_start == base_date - weekday(base_date)
                    asst == timetable_rows(teacher_id, year, sem, range,
                                           monday_start)
                    time_slots == time_slots_from(TIME_SLOTS)
                IN  response' =
                        [Render(req, "t_timetable.html") EXCEPT !.context =
                            [timetable |-> timetable_grid(asst, time_slots, order),
                             days |-> DAYS_OF_WEEK,
                             time_slots |-> time_slots,
                             week_start |-> strftime(monday_start),
                             academic_year |-> year,
                             semester |-> sem]]

(***************************************************************************)
(* Concurrent creation requests.  Each worker runs one request; a step of  *)
(* a worker is one database statement of the creation branch it runs, and  *)
(* the statements of different workers interleave (autocommit: a statement *)
(* sees every row committed before it).                                    *)
(***************************************************************************)
NumWorkers == 2
Workers == 1..NumWorkers

\* A worker that handles no request.
NotStarted ==
    [pc |-> "idle", view |-> "none", assign |-> NoSuchId,
     attendance_date |-> "none", exam_name |-> "none", outcome |-> "none"]
NoWorkers == [w \in Workers |-> NotStarted]

\* One request at a time: no worker is running, and the uniqueness constraint,
\* which only a concurrent insert can meet, plays no part.
Sequential ==
    /\ workers = NoWorkers
    /\ unique_together = FALSE

\* A worker moves to position pc, or ends its request with an outcome.
goto(w, pc) == workers' = [workers EXCEPT ![w].pc = pc]
finish(w, outcome) ==
    workers' = [workers EXCEPT ![w].pc = "done", ![w].outcome = outcome]

\* INSERT of a row whose key the rows `matching` already carry: the database
\* raises IntegrityError when the schema declares the key unique.
IntegrityError(matching) == unique_together /\ matching # {}

\* A worker takes a POST create_attendance (t_class_date) with a date string
\* DATE_FORMAT matches, or a POST create_exam (t_marks_list) with a name.
Receive(w) ==
    /\ workers[w].pc = "idle"
    /\ \E assign_id \in DOMAIN Assign :
           \/ \E date_str \in {d \in DateStrings : strptime(d).ok} :
                  workers' = [workers EXCEPT ![w] =
                                 [pc |-> "exists", view |-> "t_class_date",
                                  assign |-> assign_id,
                                  attendance_date |-> date_str,
                                  exam_name |-> "none", outcome |-> "none"]]
           \/ \E exam_name \in ExamNames :
                  workers' = [workers EXCEPT ![w] =
                                 [pc |-> "get_or_create", view |-> "t_marks_list",
                                  assign |-> assign_id,
                                  attendance_date |-> "none",
                                  exam_name |-> exam_name, outcome |-> "none"]]
    /\ UNCHANGED <<setup, tables, response, history, unique_together>>

\* create_attendance, line 530:
\*   if not AttendanceClass.objects.filter(assign, date).exists()
create_attendance_exists(w) ==
    LET me == workers[w]
        matching == attendance_classes_matching(
                        AttendanceClass, me.assign,
                        strptime(me.attendance_date).date)
    IN  /\ me.pc = "exists"
        /\ goto(w, IF matching = {} THEN "create" ELSE "get")
        /\ UNCHANGED <<setup, tables, response, history, unique_together>>

\* create_attendance, lines 531-532: the INSERT, in its own transaction.
\* IntegrityError is not a ValueError: the view does not catch it.
create_attendance_create(w) ==
    LET me == workers[w]
        date == strptime(me.attendance_date).date
        matching == attendance_classes_matching(AttendanceClass, me.assign, date)
    IN  /\ me.pc = "create"
        /\ IF IntegrityError(matching)
           THEN /\ finish(w, "raised")
                /\ UNCHANGED AttendanceClass
           ELSE /\ AttendanceClass' =
                       Append(AttendanceClass,
                              [assign |-> me.assign, date |-> date, status |-> 0])
                /\ goto(w, "get")
        /\ UNCHANGED <<setup, ExamSession, Marks, Attendance, response, history,
                       unique_together>>

\* create_attendance, line 533: AttendanceClass.objects.get(assign, date),
\* which raises MultipleObjectsReturned (not a ValueError) on several rows.
create_attendance_get(w) ==
    LET me == workers[w]
        matching == attendance_classes_matching(
                        AttendanceClass, me.assign,
                        strptime(me.attendance_date).date)
    IN  /\ me.pc = "get"
        /\ finish(w, IF Cardinality(matching) = 1 THEN "render" ELSE "raised")
        /\ UNCHANGED <<setup, tables, response, history, unique_together>>

\* create_exam, lines 196-198: the SELECT of get_or_create.  Every exception
\* is caught at line 205 and answered with an error message and a redirect.
create_exam_get(w) ==
    LET me == workers[w]
        outcome == get_or_create(Cardinality(
                       exam_sessions_matching(ExamSession, me.assign,
                                              me.exam_name)))
    IN  /\ me.pc = "get_or_create"
        /\ IF outcome = "created" THEN goto(w, "insert")
           ELSE finish(w, IF outcome = "got" THEN "warning" ELSE "error")
        /\ UNCHANGED <<setup, tables, response, history, unique_together>>

\* create_exam, lines 196-198: the INSERT of get_or_create, after its SELECT
\* found no row.  On IntegrityError get_or_create reads the row again and
\* returns it as not created.
create_exam_insert(w) ==
    LET me == workers[w]
        matching == exam_sessions_matching(ExamSession, me.assign, me.exam_name)
    IN  /\ me.pc = "insert"
        /\ IF IntegrityError(matching)
           THEN /\ finish(w, "warning")
                /\ UNCHANGED ExamSession
           ELSE /\ ExamSession' =
                       Append(ExamSession,
                              [assign |-> me.assign, name |-> me.exam_name,
                               status |-> FALSE])
                /\ finish(w, "success")
        /\ UNCHANGED <<setup, Marks, AttendanceClass, Attendance, response,
                       history, unique_together>>

\* The worker returns its response and is free for the next request.
Respond(w) ==
    /\ workers[w].pc = "done"
    /\ workers' = [workers EXCEPT ![w] = NotStarted]
    /\ UNCHANGED <<setup, tables, response, history, unique_together>>

(***************************************************************************)
(* The request state machine.                                              *)
(***************************************************************************)
\* The response is returned to the client; the next request can be taken.
ReturnResponse ==
    /\ ~Idle
    /\ response' = NoResponse
    /\ overwritten' = {}
    /\ UNCHANGED <<setup, tables, lastMarks, lastAttendance, concurrent>>

NoRows ==
    /\ ExamSession = << >>
    /\ Marks = EmptyBag
    /\ AttendanceClass = << >>
    /\ Attendance = EmptyBag
    /\ response = NoResponse
    /\ lastMarks = << >>
    /\ lastAttendance = << >>
    /\ overwritten = {}

\* One assignment: teacher 1 teaches Math to class 1; teacher 2 teaches
\* nothing to it.
Init ==
    /\ Student = BaseStudent
    /\ StudentSubject = BaseStudentSubject
    /\ Assign = <<MathAssign>>
    /\ AssignTime = << >>
    /\ NoRows
    /\ Sequential

AssignIds == DOMAIN Assign \cup {NoSuchId}
ExamSessionIds == DOMAIN ExamSession \cup {NoSuchId}
AttendanceClassIds == DOMAIN AttendanceClass \cup {NoSuchId}

\* One action per view: the server, idle, takes a request for the view from
\* any user, with any id and any form.
Serve_t_marks_list ==
    Idle /\ UNCHANGED concurrent /\ \E user \in Users, assign_id \in AssignIds, form \in MarksListForms,
               fault \in {0, SessionSaveFault} :
                 t_marks_list(user, assign_id, form, fault)
Serve_t_marks_entry ==
    Idle /\ UNCHANGED concurrent /\ \E user \in Users, marks_c_id \in ExamSessionIds :
                 t_marks_entry(user, marks_c_id)
Serve_marks_confirm ==
    Idle /\ UNCHANGED concurrent /\ \E user \in Users, marks_c_id \in ExamSessionIds,
               fields \in StudentForms(MarkValues), fault \in Faults :
                 marks_confirm(user, marks_c_id, fields, fault)
Serve_edit_marks ==
    Idle /\ UNCHANGED concurrent /\ \E user \in Users, marks_c_id \in ExamSessionIds :
                 edit_marks(user, marks_c_id)
Serve_view_students ==
    Idle /\ UNCHANGED concurrent /\ \E user \in Users, assign_id \in AssignIds :
                 view_students(user, assign_id)
Serve_t_class_date ==
    Idle /\ UNCHANGED concurrent /\ \E user \in Users, assign_id \in AssignIds, form \in ClassDateForms,
               fault \in Faults :
                 t_class_date(user, assign_id, form, fault)
Serve_t_attendance ==
    Idle /\ UNCHANGED concurrent /\ \E user \in Users, ass_c_id \in AttendanceClassIds :
                 t_attendance(user, ass_c_id)
Serve_confirm ==
    Idle /\ UNCHANGED concurrent /\ \E user \in Users, ass_c_id \in AttendanceClassIds,
               fields \in StudentForms(AttendanceValues), fault \in Faults :
                 confirm(user, ass_c_id, fields, fault)
Serve_edit_att ==
    Idle /\ UNCHANGED concurrent /\ \E user \in Users, ass_c_id \in AttendanceClassIds :
                 edit_att(user, ass_c_id)
Serve_view_att ==
    Idle /\ UNCHANGED concurrent /\ \E user \in Users, ass_c_id \in AttendanceClassIds :
                 view_att(user, ass_c_id)
Serve_t_report ==
    Idle /\ UNCHANGED concurrent /\ \E user \in Users, assign_id \in AssignIds :
                 \E scores \in ReportScores(assign_id) :
                     t_report(user, assign_id, scores)
\* free_teachers reads nothing of the user: one user asks.
Serve_free_teachers ==
    Idle /\ UNCHANGED concurrent /\ \E user \in {CHOOSE u \in Users : TRUE},
               asst_id \in DOMAIN AssignTime \cup {NoSuchId} :
                 free_teachers(user, asst_id)

Serve_t_timetable ==
    Idle /\ UNCHANGED concurrent /\ \E user \in Users, is_staff \in BOOLEAN,
               teacher_id \in Teachers \cup {NoSuchId},
               GET \in TimetableQueries,
               order \in {"id", "-id"} :
                 t_timetable(user, is_staff, teacher_id, GET, order)

Next ==
    \/ Serve_t_marks_list
    \/ Serve_t_marks_entry
    \/ Serve_marks_confirm
    \/ Serve_edit_marks
    \/ Serve_view_students
    \/ Serve_t_class_date
    \/ Serve_t_attendance
    \/ Serve_confirm
    \/ Serve_edit_att
    \/ Serve_view_att
    \/ Serve_t_report
    \/ ReturnResponse

Spec == Init /\ [][Next]_vars

\* Two assignments of different teachers, subjects and classes, each class
\* with one student, and the attendance requests on them.
InitTwoAssign ==
    /\ Student = <<1, 2>>
    /\ StudentSubject = {}
    /\ Assign = <<MathAssign, PhysicsAssign>>
    /\ AssignTime = << >>
    /\ NoRows
    /\ Sequential

NextAttendance ==
    \/ Serve_t_class_date
    \/ Serve_t_attendance
    \/ Serve_confirm
    \/ Serve_edit_att
    \/ Serve_view_att
    \/ ReturnResponse

SpecTwoAssign == InitTwoAssign /\ [][NextAttendance]_vars

\* The timetable as administrative setup may have provisioned it: the Math
\* assignment of class 1 at Monday's first period, and any other Assign and
\* AssignTime rows; the requests are those of the free-teacher finder, for
\* any of the slots.
InitTimetable ==
    /\ Student = << >>
    /\ StudentSubject = {}
    /\ Assign \in {f \in [1..NumAssign -> [teacher : Teachers, subject : Subjects,
                                           class_id : Classes]] :
                       f[1] = MathAssign}
    /\ AssignTime \in
           {f \in [1..NumAssignTime ->
                      {[assign |-> a, day |-> sl[1], period |-> sl[2]] :
                           a \in 1..NumAssign, sl \in Slots}] :
               f[1] = [assign |-> 1, day |-> "Monday", period |-> "8:30 - 9:30"]}
    /\ NoRows
    /\ Sequential

NextFreeTeachers ==
    \/ Serve_free_teachers
    \/ ReturnResponse

SpecFreeTeachers == InitTimetable /\ [][NextFreeTeachers]_vars

\* The timetables of the weekly view: the Assign rows of TimetableAssign and
\* any AssignTime rows among TimetableRows (in the order of TimetableRows:
\* the view reads them in id order and in the reverse order); the requests
\* are those of t_timetable.
InitWeek ==
    /\ Student = << >>
    /\ StudentSubject = {}
    /\ Assign = TimetableAssign
    /\ AssignTime \in
           {[i \in 1..NumAssignTime |-> TimetableRows[pick[i]]] :
               pick \in {f \in [1..NumAssignTime -> DOMAIN TimetableRows] :
                            \A i \in 1..(NumAssignTime - 1) : f[i] <= f[i + 1]}}
    /\ NoRows
    /\ Sequential

NextWeek ==
    \/ Serve_t_timetable
    \/ ReturnResponse

SpecWeek == InitWeek /\ [][NextWeek]_vars

\* The classes of the report: the Math assignment of class 1 with any of
\* its students enrolled, and the Physics assignment of class 2 with nobody
\* enrolled; the requests are those of t_report.
InitReport ==
    /\ Student = BaseStudent
    /\ StudentSubject \in
           SUBSET {<<s, "Math">> : s \in Range(student_set(1))}
    /\ Assign = <<MathAssign, PhysicsAssign>>
    /\ AssignTime = << >>
    /\ NoRows
    /\ Sequential

NextReport ==
    \/ Serve_t_report
    \/ ReturnResponse

SpecReport == InitReport /\ [][NextReport]_vars

\* The mark lists of the aggregated view: students 1 and 2 are enrolled in
\* Math; an exam was created under each name of NameOrder, and marks_confirm
\* has recorded a mark of student 1, 7 or 20, in any of them; the requests
\* are those of view_students.
CieMarkValues == {7, 20}
InitMarks ==
    /\ Student = BaseStudent
    /\ StudentSubject = BaseStudentSubject
    /\ Assign = <<MathAssign>>
    /\ AssignTime = << >>
    /\ \E names \in SUBSET Range(NameOrder),
          value \in [Range(NameOrder) -> CieMarkValues] :
           /\ ExamSession = [i \in DOMAIN NameOrder |->
                                [assign |-> 1, name |-> NameOrder[i],
                                 status |-> NameOrder[i] \in names]]
           /\ Marks = SetToBag({[student_subject |-> <<1, "Math">>, name |-> n,
                                 marks1 |-> value[n]] : n \in names})
           /\ lastMarks = [k \in {<<<<1, "Math">>, n>> : n \in names} |->
                              value[k[2]]]
    /\ AttendanceClass = << >>
    /\ Attendance = EmptyBag
    /\ response = NoResponse
    /\ Sequential
    /\ lastAttendance = << >>
    /\ overwritten = {}

NextMarks ==
    \/ Serve_view_students
    \/ ReturnResponse

SpecMarks == InitMarks /\ [][NextMarks]_vars

\* The record sets of the attendance statistics: one Marked session of the
\* Math assignment, with a row, present or absent, of any of the students
\* (those of the class, and those who have left it); the requests are those
\* of edit_att and view_att.
InitStatistics ==
    /\ Student = BaseStudent
    /\ StudentSubject = BaseStudentSubject
    /\ Assign = <<MathAssign>>
    /\ AssignTime = << >>
    /\ ExamSession = << >>
    /\ Marks = EmptyBag
    /\ AttendanceClass = <<[assign |-> 1, date |-> <<2024, 1, 10>>, status |-> 1]>>
    /\ \E present \in SUBSET (1..NumStudents), absent \in SUBSET (1..NumStudents) :
           /\ present \cap absent = {}
           /\ Attendance =
                  SetToBag({[student |-> x, subject |-> "Math",
                             attendanceclass |-> 1, date |-> <<2024, 1, 10>>,
                             status |-> x \in present] : x \in present \cup absent})
           /\ lastAttendance =
                  [k \in {<<x, "Math", 1, <<2024, 1, 10>>>> :
                             x \in present \cup absent} |-> k[1] \in present]
    /\ response = NoResponse
    /\ Sequential
    /\ lastMarks = << >>
    /\ overwritten = {}

NextStatistics ==
    \/ Serve_edit_att
    \/ Serve_view_att
    \/ ReturnResponse

SpecStatistics == InitStatistics /\ [][NextStatistics]_vars

\* One assignment and no session yet; the schema, which the views do not
\* show, may or may not declare the keys of the sessions unique; the workers
\* take creation requests and run them statement by statement.
InitConcurrent ==
    /\ Student = BaseStudent
    /\ StudentSubject = BaseStudentSubject
    /\ Assign = <<MathAssign>>
    /\ AssignTime = << >>
    /\ NoRows
    /\ workers = NoWorkers
    /\ unique_together \in BOOLEAN

NextConcurrent ==
    \E w \in Workers :
        \/ Receive(w)
        \/ create_attendance_exists(w)
        \/ create_attendance_create(w)
        \/ create_attendance_get(w)
        \/ create_exam_get(w)
        \/ create_exam_insert(w)
        \/ Respond(w)

SpecConcurrent == InitConcurrent /\ [][NextConcurrent]_vars

(***************************************************************************)
(* Properties.                                                             *)
(***************************************************************************)
\* The assignment a request addresses through the id in its URL (NoSuchId
\* when the id names no row, or the view is not scoped to an assignment).
RequestAssign(req) ==
    IF req.view \in {"t_marks_list", "t_class_date", "t_report", "view_students"}
    THEN IF req.arg \in DOMAIN Assign THEN req.arg ELSE NoSuchId
    ELSE IF req.view \in {"t_marks_entry", "marks_confirm", "edit_marks"}
    THEN IF req.arg \in DOMAIN ExamSession
         THEN ExamSession[req.arg].assign ELSE NoSuchId
    ELSE IF req.view \in {"confirm", "edit_att", "view_att"}
    THEN IF req.arg \in DOMAIN AttendanceClass
         THEN AttendanceClass[req.arg].assign ELSE NoSuchId
    ELSE NoSuchId

\* The request is made by a teacher on a resource of another teacher's
\* assignment.
Foreign(req) ==
    /\ RequestAssign(req) # NoSuchId
    /\ Assign[RequestAssign(req)].teacher # req.user

\* The request is a marks or attendance confirmation.
IsAttendanceConfirm(req) ==
    \/ req.view = "confirm"
    \/ req.view = "t_class_date" /\ "confirm_attendance" \in DOMAIN req.form.POST
IsConfirm(req) == req.view = "marks_confirm" \/ IsAttendanceConfirm(req)

\* C1: a request by teacher B on a resource of teacher A's assignment is
\* answered with an error message and a redirect to the dashboard, and
\* changes no ExamSession, Marks, AttendanceClass or Attendance row.
C1_ForeignRequestDenied ==
    [][Foreign(response'.req) =>
          /\ response' = AccessDenied(response'.req)
          /\ tables' = tables]_vars

\* C2: a create_exam for an (assign, name) that has an ExamSession, and a
\* create_attendance for an (assign, date) that has an AttendanceClass, leave
\* exactly one row for the key, and leave that row as it was.
C2_CreateIdempotent ==
    [][LET req == response'.req
       IN  /\ (req.view = "t_marks_list" /\ "exam_name" \in DOMAIN req.form.POST) =>
                LET name == req.form.POST.exam_name
                    before == exam_sessions_matching(ExamSession, req.arg, name)
                    after == exam_sessions_matching(ExamSession', req.arg, name)
                IN  before # {} =>
                        /\ Cardinality(after) = 1
                        /\ after = before
                        /\ \A i \in before : ExamSession'[i] = ExamSession[i]
           /\ (/\ req.view = "t_class_date"
               /\ "attendance_date" \in DOMAIN req.form.POST
               /\ strptime(req.form.POST.attendance_date).ok) =>
                LET date == strptime(req.form.POST.attendance_date).date
                    before == attendance_classes_matching(AttendanceClass,
                                                          req.arg, date)
                    after == attendance_classes_matching(AttendanceClass',
                                                         req.arg, date)
                IN  before # {} =>
                        /\ Cardinality(after) = 1
                        /\ after = before
                        /\ \A i \in before :
                               AttendanceClass'[i] = AttendanceClass[i]]_vars

\* C2 witness: create_attendance was asked again, under another spelling of
\* the date, for a session already Marked, which is still the only row.
C2_Witness ==
    /\ response.req.view = "t_class_date"
    /\ "attendance_date" \in DOMAIN response.req.form.POST
    /\ response.req.form.POST.attendance_date = "2024-1-10"
    /\ response.kind = "render"
    /\ Len(AttendanceClass) = 1
    /\ AttendanceClass[1].status = 1

\* C3: a Finalized ExamSession stays Finalized and a Marked AttendanceClass
\* stays Marked; only marks_confirm changes an ExamSession's status, and only
\* the attendance confirmations change an AttendanceClass's status.
C3_StatusOneWay ==
    [][/\ \A i \in DOMAIN ExamSession :
              /\ i \in DOMAIN ExamSession'
              /\ ExamSession[i].status => ExamSession'[i].status
              /\ ExamSession'[i].status # ExamSession[i].status =>
                     response'.req.view = "marks_confirm"
       /\ \A i \in DOMAIN AttendanceClass :
              /\ i \in DOMAIN AttendanceClass'
              /\ AttendanceClass[i].status = 1 => AttendanceClass'[i].status = 1
              /\ AttendanceClass'[i].status # AttendanceClass[i].status =>
                     IsAttendanceConfirm(response'.req)]_vars

\* C3 witness: a confirmation of a Marked session failed, and the session is
\* still Marked.
C3_Witness ==
    /\ response.req.view = "confirm"
    /\ response.kind = "raise"
    /\ AttendanceClass[response.req.arg].status = 1

\* The students a confirmation request loops over, and the subject and the
\* session its rows are keyed by.
ConfirmTarget(req) ==
    IF req.view = "marks_confirm"
    THEN LET a == Assign[ExamSession[req.arg].assign]
         IN  [class_id |-> a.class_id, subject |-> a.subject, session |-> req.arg]
    ELSE IF req.view = "confirm"
    THEN LET a == Assign[AttendanceClass[req.arg].assign]
         IN  [class_id |-> a.class_id, subject |-> a.subject, session |-> req.arg]
    ELSE [class_id |-> Assign[req.arg].class_id,
          subject |-> Assign[req.arg].subject,
          session |-> req.form.POST.assc_id]

\* Every row a successful confirmation writes is in the tables after it, with
\* the submitted value, and the session has its final status.
ConfirmVisible(req) ==
    LET t == ConfirmTarget(req)
    IN  IF req.view = "marks_confirm"
        THEN /\ ExamSession'[t.session].status
             /\ \A k \in marks_keys(t.class_id, t.subject,
                                    ExamSession[t.session].name, req.form.fields) :
                    \E r \in DOMAIN Marks' :
                        /\ <<r.student_subject, r.name>> = k
                        /\ r.marks1 = req.form.fields[USN(k[1][1])]
        ELSE /\ AttendanceClass'[t.session].status = 1
             /\ \A s \in Range(student_set(t.class_id)) :
                    \E r \in DOMAIN Attendance' :
                        /\ r.student = s /\ r.subject = t.subject
                        /\ r.attendanceclass = t.session
                        /\ r.date = AttendanceClass[t.session].date
                        /\ r.status = submitted_status(req.form.fields, s)

\* C4: a confirmation that fails (at a student of its loop, or at the save of
\* the status) leaves the tables as they were before the request; one that
\* succeeds makes all its per-student writes and the status visible.
C4_ConfirmAllOrNothing ==
    [][LET r == response'
       IN  IsConfirm(r.req) =>
               /\ r.kind # "redirect" => tables' = tables
               /\ r.kind = "redirect" => ConfirmVisible(r.req)]_vars

\* C4 witness: marks were submitted for students 1 and 2, the write for
\* student 2 raised, and no Marks row is there.
C4_Witness ==
    /\ response.req.view = "marks_confirm"
    /\ response.kind = "raise"
    /\ response.req.fault = 2
    /\ DOMAIN response.req.form.fields = {USN(1), USN(2)}
    /\ Marks = EmptyBag

\* The rows of a bag whose key (under the key function) is not in keys.
RowsOutside(rows, key(_), keys) ==
    [r \in {x \in DOMAIN rows : key(x) \notin keys} |-> rows[r]]

MarksKey(r) == <<r.student_subject, r.name>>
AttendanceKey(r) == <<r.student, r.subject, r.attendanceclass, r.date>>

\* C5: after a successful marks_confirm for session S, every enrolled student
\* of the class whose USN was submitted has a Marks row for (StudentSubject,
\* S.name) and every such row holds the submitted value; S is Finalized; the
\* Marks rows of every other key are as they were, none added, none changed.
C5_MarksConfirmResult ==
    [][LET req == response'.req
       IN  (req.view = "marks_confirm" /\ response'.kind = "redirect") =>
               LET S == ExamSession[req.arg]
                   a == Assign[S.assign]
                   fields == req.form.fields
                   keys == {<<<<s, a.subject>>, S.name>> : s \in
                               {x \in Students :
                                   /\ Student[x] = a.class_id
                                   /\ <<x, a.subject>> \in StudentSubject
                                   /\ USN(x) \in DOMAIN fields}}
               IN  /\ ExamSession'[req.arg].status = TRUE
                   /\ \A k \in keys :
                          /\ \E r \in DOMAIN Marks' : MarksKey(r) = k
                          /\ \A r \in DOMAIN Marks' :
                                 MarksKey(r) = k =>
                                     r.marks1 = fields[USN(k[1][1])]
                   /\ RowsOutside(Marks', MarksKey, keys) =
                          RowsOutside(Marks, MarksKey, keys)]_vars

\* C5 witness: marks 18, 20 and 18 were submitted for students 1, 2 and 3 of
\* the class, student 3 not being enrolled; the session is Finalized and two
\* rows exist, 18 for student 1 and 20 for student 2.
C5_Witness ==
    /\ response.req.view = "marks_confirm"
    /\ response.kind = "redirect"
    /\ response.req.form.fields = (USN(1) :> 18) @@ (USN(2) :> 20) @@ (USN(3) :> 18)
    /\ ExamSession[response.req.arg].status
    /\ BagCardinality(Marks) = 2
    /\ \E r \in DOMAIN Marks : r.student_subject[1] = 2 /\ r.marks1 = 20

\* C6: after a successful attendance confirmation for AttendanceClass C, by
\* confirm or by the confirm_attendance branch of t_class_date, every student
\* of the class of C's assignment has an Attendance row keyed (student,
\* subject of C's assignment, C, C.date) whose status is True exactly when
\* 'present' was submitted under the student's USN, and C is Marked.
C6_AttendanceConfirmResult ==
    [][LET req == response'.req
       IN  (IsAttendanceConfirm(req) /\ response'.kind = "redirect") =>
               LET c == IF req.view = "confirm" THEN req.arg
                        ELSE req.form.POST.assc_id
                   C == AttendanceClass[c]
                   a == Assign[C.assign]
                   fields == req.form.fields
               IN  /\ AttendanceClass'[c].status = 1
                   /\ \A s \in {x \in Students : Student[x] = a.class_id} :
                          /\ \E r \in DOMAIN Attendance' :
                                 AttendanceKey(r) = <<s, a.subject, c, C.date>>
                          /\ \A r \in DOMAIN Attendance' :
                                 AttendanceKey(r) = <<s, a.subject, c, C.date>> =>
                                     (r.status <=>
                                        (/\ USN(s) \in DOMAIN fields
                                         /\ fields[USN(s)] = "present"))]_vars

\* C7: in the result of free_teachers for a slot, no teacher with an
\* AssignTime at the slot's day and period is in ft_list or in
\* teachers_without_knowledge; every teacher of ft_list has an Assign row of
\* the required subject; the two lists are disjoint and hold only teachers
\* assigned to the target class.
C7_FreeTeachersLists ==
    (response.req.view = "free_teachers" /\ response.kind = "render") =>
        LET c == response.context
            slot == AssignTime[response.req.arg]
            target == Assign[slot.assign]
            free == Range(c.ft_list)
            unqualified == Range(c.teachers_without_knowledge)
        IN  /\ \A t \in free \cup unqualified :
                   /\ ~ \E at \in DOMAIN AssignTime :
                          /\ Assign[AssignTime[at].assign].teacher = t
                          /\ AssignTime[at].day = slot.day
                          /\ AssignTime[at].period = slot.period
                   /\ \E a \in DOMAIN Assign :
                          Assign[a].teacher = t /\ Assign[a].class_id = target.class_id
            /\ \A t \in free :
                   \E a \in DOMAIN Assign :
                       Assign[a].teacher = t /\ Assign[a].subject = target.subject
            /\ free \cap unqualified = {}

\* C7 witness: both teachers teach the target class; teacher 1, who is busy
\* at the slot and at another slot, is in no list, and teacher 2, free and
\* teaching the required subject, is the one qualified free teacher.
C7_Witness ==
    /\ response.req.view = "free_teachers"
    /\ response.kind = "render"
    /\ response.context.total_teachers_checked = 2
    /\ response.context.ft_list = <<2>>
    /\ response.context.teachers_without_knowledge = << >>
    /\ \A at \in DOMAIN AssignTime : Assign[AssignTime[at].assign].teacher = 1
    /\ AssignTime[1].day # AssignTime[2].day

\* C8: there is one Marks row at most per (StudentSubject, name) and one
\* Attendance row at most per (student, subject, attendanceclass, date), and
\* the row holds the value of the last committed submission for its key.
C8_UpsertLastWriteWins ==
    /\ \A r \in DOMAIN Marks :
           /\ Marks[r] = 1
           /\ \A q \in DOMAIN Marks : MarksKey(q) = MarksKey(r) => q = r
           /\ MarksKey(r) \in DOMAIN lastMarks
           /\ r.marks1 = lastMarks[MarksKey(r)]
    /\ \A r \in DOMAIN Attendance :
           /\ Attendance[r] = 1
           /\ \A q \in DOMAIN Attendance :
                  AttendanceKey(q) = AttendanceKey(r) => q = r
           /\ AttendanceKey(r) \in DOMAIN lastAttendance
           /\ r.status = lastAttendance[AttendanceKey(r)]

\* C8 witness: a confirmation overwrote the rows of a session that had
\* rows already: student 1, submitted present, and student 2, not submitted,
\* have one row each, True and False.
C8_Witness ==
    /\ response.req.view = "confirm"
    /\ response.kind = "redirect"
    /\ response.req.form.fields = (USN(1) :> "present")
    /\ \E k \in overwritten : k[1] = 1
    /\ \E k \in overwritten : k[1] = 2
    /\ \E r \in DOMAIN Attendance : r.student = 1 /\ r.status
    /\ \E r \in DOMAIN Attendance : r.student = 2 /\ ~r.status
    /\ BagCardinality(Attendance) = 3

\* C9: a request that commits a write (a created ExamSession or
\* AttendanceClass, confirmed marks or attendance) ends with a redirect,
\* never with a render of the page.
C9_RedirectAfterWrite ==
    [][tables' # tables => response'.kind = "redirect"]_vars

\* A session-creation request that fails: create_exam without exam_name or
\* meeting a fault of the database; create_attendance without
\* attendance_date, with a string that is no date, or meeting a fault of the
\* database when it creates the row.
CreationFails(req) ==
    /\ req.arg \in DOMAIN Assign
    /\ \/ /\ req.view = "t_marks_list"
          /\ "create_exam" \in DOMAIN req.form.POST
          /\ \/ "exam_name" \notin DOMAIN req.form.POST
             \/ req.fault = SessionSaveFault
       \/ /\ req.view = "t_class_date"
          /\ "create_attendance" \in DOMAIN req.form.POST
          /\ \/ "attendance_date" \notin DOMAIN req.form.POST
             \/ ~strptime(req.form.POST.attendance_date).ok
             \/ /\ req.fault = SessionSaveFault
                /\ attendance_classes_matching(AttendanceClass, req.arg,
                       strptime(req.form.POST.attendance_date).date) = {}

\* C10: a session-creation request that fails does not raise: it completes
\* with a message for the user, and no ExamSession or AttendanceClass row is
\* created or modified.
C10_CreationNeverRaises ==
    [][CreationFails(response'.req) =>
          /\ response'.kind \in {"redirect", "render"}
          /\ response'.level # "none"
          /\ ExamSession' = ExamSession
          /\ AttendanceClass' = AttendanceClass]_vars

\* The response is a timetable grid of t_timetable.
IsTimetable(r) == r.req.view = "t_timetable" /\ r.kind = "render"

\* C11: in every grid built by t_timetable the cells of the break marker and
\* of the lunch marker are empty on every day, whatever AssignTime rows the
\* teacher has; the break marker is right after '9:30 - 10:30', the lunch
\* marker right after '12:40 - 1:30', and the other slots are those of
\* TIME_SLOTS in their order.
C11_MarkerCellsEmpty ==
    IsTimetable(response) =>
        LET c == response.context
            slots == c.time_slots
        IN  /\ \A day \in DOMAIN c.timetable :
                   /\ c.timetable[day][BREAK_PERIOD] = None
                   /\ c.timetable[day][LUNCH_PERIOD] = None
            /\ \E b, l \in DOMAIN slots :
                   /\ slots[b] = BREAK_PERIOD /\ b > 1
                   /\ slots[b - 1] = "9:30 - 10:30"
                   /\ slots[l] = LUNCH_PERIOD /\ l > 1
                   /\ slots[l - 1] = "12:40 - 1:30"
            /\ SelectSeq(slots, LAMBDA p : p \notin {BREAK_PERIOD, LUNCH_PERIOD})
                   = TIME_SLOTS

\* C15: in the grid of teacher T, a cell (day, slot) is filled exactly when
\* an AssignTime of T that passes the academic-year, semester and date-range
\* filters has that day and period; a filled cell holds the subject, teacher
\* and assignment of such a row, so its teacher is T; a day whose date in the
\* displayed week is outside [start, end] has no filled cell.
C15_TimetableCells ==
    IsTimetable(response) =>
        LET c == response.context
            T == response.req.arg
            range == timetable_date_range(response.req.form.GET,
                                          c.academic_year, c.semester)
            monday == c.week_start.day
            DateOf(day) ==
                monday + (CHOOSE i \in 0..(Len(c.days) - 1) : c.days[i + 1] = day)
            InRange(day) ==
                range.ok => (range.start <= DateOf(day) /\ DateOf(day) <= range.end)
            Passing(day, slot) ==
                {at \in DOMAIN AssignTime :
                    LET assign == Assign[AssignTime[at].assign]
                    IN  /\ AssignTime[at].day = day
                        /\ AssignTime[at].period = slot
                        /\ assign.teacher = T
                        /\ c.academic_year \in Range(assign.academic_year)
                        /\ c.semester \in {"1", "2", "3"} =>
                               c.semester = (IF assign.semester = 1 THEN "1"
                                             ELSE IF assign.semester = 2 THEN "2"
                                             ELSE "3")
                        /\ InRange(day)}
        IN  \A day \in Range(c.days), slot \in Range(c.time_slots) :
                LET cell == c.timetable[day][slot]
                IN  /\ cell # None <=> Passing(day, slot) # {}
                    /\ cell # None =>
                           /\ cell.teacher = T
                           /\ \E at \in Passing(day, slot) :
                                  LET a == AssignTime[at].assign
                                  IN  cell = [subject |-> Assign[a].subject,
                                              teacher |-> Assign[a].teacher,
                                              assignment |-> a]
                    /\ ~InRange(day) => cell = None

\* C15 witness: teacher 1 has a row on Monday and a row on Tuesday; the
\* dates asked for are the Monday of the week alone; the Monday cell holds
\* assignment 1 and the Tuesday cell is empty.
C15_Witness ==
    /\ IsTimetable(response)
    /\ response.req.arg = 1
    /\ "start_date" \in DOMAIN response.req.form.GET
    /\ response.req.form.GET.start_date = strftime(0)
    /\ response.context.week_start = strftime(0)
    /\ \E at \in DOMAIN AssignTime :
           AssignTime[at] = [assign |-> 1, day |-> "Tuesday",
                             period |-> "12:40 - 1:30"]
    /\ response.context.timetable["Monday"]["9:30 - 10:30"].assignment = 1
    /\ response.context.timetable["Tuesday"]["12:40 - 1:30"] = None

\* C12: in t_report, over the enrolled students of the class, a student is
\* counted in good_attendance_count iff attendance >= ATTENDANCE_STANDARD, in
\* good_cie_count iff cie >= CIE_STANDARD, in need_support_count iff
\* attendance < ATTENDANCE_STANDARD or cie < CIE_STANDARD; need_support_count
\* plus the number meeting both thresholds is the number enrolled, each count
\* is at most that number, and pass_rate is 100 when nobody is enrolled.
C12_ReportCounts ==
    (response.req.view = "t_report" /\ response.kind = "render") =>
        LET c == response.context
            ass == Assign[response.req.arg]
            scores == response.req.form.scores
            E == {s \in Students : /\ Student[s] = ass.class_id
                                   /\ <<s, ass.subject>> \in StudentSubject}
            att(s) == IF scores[s].attendance.raises THEN 0
                      ELSE scores[s].attendance.value
            cie(s) == IF scores[s].cie.raises THEN 0 ELSE scores[s].cie.value
            n == Cardinality(E)
        IN  /\ c.good_attendance_count = Cardinality({s \in E : att(s) >= ATTENDANCE_STANDARD})
            /\ c.good_cie_count = Cardinality({s \in E : cie(s) >= CIE_STANDARD})
            /\ c.need_support_count =
                   Cardinality({s \in E : \/ att(s) < ATTENDANCE_STANDARD
                                        \/ cie(s) < CIE_STANDARD})
            /\ c.need_support_count
                   + Cardinality({s \in E : /\ att(s) >= ATTENDANCE_STANDARD
                                          /\ cie(s) >= CIE_STANDARD}) = n
            /\ c.good_attendance_count <= n
            /\ c.good_cie_count <= n
            /\ c.need_support_count <= n
            /\ n = 0 => c.pass_rate = 100

\* C12 witness: of two enrolled students, one at 92% and CIE 9, one at 85%
\* and CIE 7: both have good attendance, one a good CIE, one needs support,
\* and the pass rate is 50.
C12_Witness ==
    /\ response.req.view = "t_report"
    /\ response.kind = "render"
    /\ Len(response.context.sc_list) = 2
    /\ \E s \in DOMAIN response.req.form.scores :
           /\ response.req.form.scores[s].attendance.value = 92
           /\ response.req.form.scores[s].cie.value = 9
    /\ \E s \in DOMAIN response.req.form.scores :
           /\ response.req.form.scores[s].attendance.value = 85
           /\ response.req.form.scores[s].cie.value = 7
    /\ response.context.good_attendance_count = 2
    /\ response.context.good_cie_count = 1
    /\ response.context.need_support_count = 1
    /\ response.context.pass_rate = 50

\* The sum of marks1 over a set of Marks rows.
RECURSIVE SumMarks(_)
SumMarks(S) ==
    IF S = {} THEN 0
    ELSE LET x == CHOOSE y \in S : TRUE
         IN  x.marks1 + SumMarks(S \ {x})

\* C13: for every enrolled student shown by view_students, cie_score is the
\* ceiling of (the sum of the first CIE_CALCULATION_LIMIT marks of the
\* student's list, in name order) / CIE_DIVISOR, and 0 for an empty list;
\* total_marks is the sum of all the marks; a student who is not enrolled has
\* total 0 and CIE 0.
C13_CieScore ==
    (response.req.view = "view_students" /\ response.kind = "render") =>
        LET subject == Assign[response.req.arg].subject
            page == response.context.students_page
        IN  \A i \in DOMAIN page :
                LET e == page[i]
                    rows == {r \in DOMAIN Marks :
                                r.student_subject = <<e.student, subject>>}
                    Pos(r) == CHOOSE n \in DOMAIN NameOrder : NameOrder[n] = r.name
                    first == {r \in rows :
                                 Cardinality({q \in rows : Pos(q) < Pos(r)})
                                     < CIE_CALCULATION_LIMIT}
                    S == SumMarks(first)
                IN  IF <<e.student, subject>> \in StudentSubject
                    THEN /\ e.total_marks = SumMarks(rows)
                         /\ rows = {} => e.cie_score = 0
                         /\ rows # {} => /\ CIE_DIVISOR * e.cie_score >= S
                                         /\ CIE_DIVISOR * (e.cie_score - 1) < S
                    ELSE e.total_marks = 0 /\ e.cie_score = 0

\* C13 witness: student 1 has six marks of 7: the total is 42 and the CIE
\* score is ceil(35 / 2) = 18; student 3, not enrolled, has 0 and 0.
C13_Witness ==
    /\ response.req.view = "view_students"
    /\ response.kind = "render"
    /\ response.context.students_page[1].marks = <<7, 7, 7, 7, 7, 7>>
    /\ response.context.students_page[1].total_marks = 42
    /\ response.context.students_page[1].cie_score = 18
    /\ ~response.context.students_page[3].is_registered
    /\ response.context.students_page[3].cie_score = 0

\* C14: for every set of attendance records, the empty one included, the
\* statistics are the counts of the records, with present + absent = total
\* and 0 <= present <= total, and a percentage (in tenths) that is
\* present / total * 100 rounded to one decimal when total > 0 and 0 when
\* total = 0; no record is modified.
C14_AttendanceStatistics ==
    [][LET r == response'
       IN  (r.req.view \in {"edit_att", "view_att"} /\ r.kind = "render") =>
               LET subject == Assign[AttendanceClass[r.req.arg].assign].subject
                   rows == {x \in DOMAIN Attendance :
                               /\ x.attendanceclass = r.req.arg
                               /\ x.subject = subject}
                   total == Cardinality(rows)
                   present == Cardinality({x \in rows : x.status})
                   c == r.context
               IN  /\ Attendance' = Attendance
                   /\ AttendanceClass' = AttendanceClass
                   /\ c.total_students = total
                   /\ c.present_students = present
                   /\ c.present_students + c.absent_students = c.total_students
                   /\ 0 <= c.present_students
                   /\ c.present_students <= c.total_students
                   /\ r.req.view = "view_att" =>
                          LET p == c.attendance_percentage
                              d == p * total - 1000 * present
                          IN  /\ total = 0 => p = 0
                              /\ total > 0 => /\ 2 * d <= total
                                              /\ 2 * (0 - d) <= total]_vars

\* C14 witness: of the three records of the session two are present, and
\* the percentage shown is 66.7.
C14_Witness ==
    /\ response.req.view = "view_att"
    /\ response.kind = "render"
    /\ response.context.total_students = 3
    /\ response.context.present_students = 2
    /\ response.context.absent_students = 1
    /\ response.context.attendance_percentage = 667

\* C17: in every reachable state each Attendance row has the subject of the
\* assignment of its AttendanceClass, a student of the class of that
\* assignment, and the date of its AttendanceClass. A confirm_attendance of
\* t_class_date for one assignment that writes rows attached to the
\* AttendanceClass of another assignment leaves rows that break this.
C17_ReferentialConsistency ==
    \A r \in DOMAIN Attendance :
        /\ r.attendanceclass \in DOMAIN AttendanceClass
        /\ LET C == AttendanceClass[r.attendanceclass]
               a == Assign[C.assign]
           IN  /\ r.subject = a.subject
               /\ r.student \in Students
               /\ Student[r.student] = a.class_id
               /\ r.date = C.date

\* C16: under any interleaving of concurrent create_attendance requests for
\* the same (assign, date) and of concurrent create_exam requests for the
\* same (assign, name), there is at most one AttendanceClass row per
\* (assign, date) and at most one ExamSession row per (assign, name) in every
\* reachable state, and no request ends in an unhandled error.
C16_ConcurrentCreation ==
    /\ \A i, j \in DOMAIN AttendanceClass :
           (/\ AttendanceClass[i].assign = AttendanceClass[j].assign
            /\ AttendanceClass[i].date = AttendanceClass[j].date) => i = j
    /\ \A i, j \in DOMAIN ExamSession :
           (/\ ExamSession[i].assign = ExamSession[j].assign
            /\ ExamSession[i].name = ExamSession[j].name) => i = j
    /\ \A w \in Workers : workers[w].outcome # "raised"

====
